---- MODULE Spec2Model ----
(***************************************************************************)
(* A model of the toy rendering engine: the style resolver (style.rs), the *)
(* box tree builder and box model solver (layout.rs), and the display-list *)
(* builder and rasterizer (painting.rs).                                   *)
(*                                                                         *)
(* One render is the pipeline of main.rs:                                  *)
(*   style_tree -> layout_tree (build_layout_tree, layout) -> paint        *)
(*   (build_display_list, Canvas::new, paint_item for each command).       *)
(* pc is the position in that pipeline.  The stages are pure functions of  *)
(* their inputs; they are modelled as operators and applied by the actions.*)
(*                                                                         *)
(* Lengths are f32 in the source.  Every length the model feeds in is a    *)
(* whole number of pixels, and the only non-integral operation on lengths  *)
(* is the division by 2.0 of calculate_block_width, so every value is a    *)
(* multiple of 1/2 px and exact in f32.  A length is modelled as the       *)
(* integer number of 1/Scale pixels.                                       *)
(***************************************************************************)
EXTENDS Integers, Sequences, FiniteSets, TLC

VARIABLES
    pc,            \* position in the pipeline of main
    root_node,     \* the document tree (html::types::Node)
    stylesheet,    \* css::types::Stylesheet
    style_root,    \* the styled tree (style::StyledNode)
    viewport,      \* layout::Dimensions of the containing block
    layout_root,   \* the box tree (layout::LayoutBox)
    display_list,  \* Vec<DisplayCommand>
    canvas,        \* painting::Canvas
    item,          \* index of the next display command of paint's loop
    panic,         \* the message of the panic that aborted the render, or ""
    stack,         \* the calls of LayoutBox::layout in progress, innermost last
    trace          \* the steps of the layout pass taken so far, in order

vars == <<pc, root_node, stylesheet, style_root, viewport, layout_root,
          display_list, canvas, item, panic, stack, trace>>

\* The variables of the layout pass taken step by step
pass == <<stack, trace>>

Nil == <<>>

Range(s) == {s[i] : i \in 1..Len(s)}

Min(S) == CHOOSE x \in S : \A y \in S : x <= y

Max(S) == CHOOSE x \in S : \A y \in S : x >= y

(***************************************************************************)
(* css/types.rs                                                            *)
(***************************************************************************)

\* Fixed-point units per pixel: one binary fractional digit of the f32.
Scale == 2

Px(n) == n * Scale

Color(r, g, b, a) == <<r, g, b, a>>

NoColor == Color(0, 0, 0, 0)

\* Value::Keyword(String)
Keyword(s) == [kind |-> "Keyword", s |-> s, f |-> 0, color |-> NoColor]

\* Value::Length(f32, Unit::Px); f is in 1/Scale px
Length(f) == [kind |-> "Length", s |-> "", f |-> f, color |-> NoColor]

\* Value::ColorValue(Color)
ColorValue(c) == [kind |-> "ColorValue", s |-> "", f |-> 0, color |-> c]

\* Option<Value>::None
None == [kind |-> "None", s |-> "", f |-> 0, color |-> NoColor]

to_px(v) == IF v.kind = "Length" THEN v.f ELSE 0

\* SimpleSelector; an Option<String> is a sequence of 0 or 1 strings
SimpleSelector(id, class, tag_name) ==
    [id |-> id, class |-> class, tag_name |-> tag_name]

Declaration(name, value) == [name |-> name, value |-> value]

Rule(selectors, declarations) ==
    [selectors |-> selectors, declarations |-> declarations]

specificity(selector) ==
    <<Len(selector.id), Len(selector.class), Len(selector.tag_name)>>

\* Ord for (usize, usize, usize): -1, 0, 1 for Less, Equal, Greater
cmp(a, b) ==
    IF a[1] # b[1] THEN (IF a[1] < b[1] THEN -1 ELSE 1)
    ELSE IF a[2] # b[2] THEN (IF a[2] < b[2] THEN -1 ELSE 1)
    ELSE IF a[3] # b[3] THEN (IF a[3] < b[3] THEN -1 ELSE 1)
    ELSE 0

(***************************************************************************)
(* css/parser.rs: parse_selectors sorts a rule's selectors, highest        *)
(* specificity first (slice::sort_by is stable).                           *)
(***************************************************************************)

RECURSIVE InsertDescending(_, _)
InsertDescending(sorted, x) ==
    IF sorted = <<>> THEN <<x>>
    ELSE IF cmp(specificity(x), specificity(sorted[Len(sorted)])) <= 0
         THEN Append(sorted, x)
         ELSE Append(InsertDescending(SubSeq(sorted, 1, Len(sorted) - 1), x),
                     sorted[Len(sorted)])

RECURSIVE SortDescending(_)
SortDescending(s) ==
    IF s = <<>> THEN <<>>
    ELSE InsertDescending(SortDescending(SubSeq(s, 1, Len(s) - 1)), s[Len(s)])

\* A parser that keeps the selectors in the order they are written
parse_selectors_unsorted(written) == written

\* parse_selectors: the selectors of one rule, sorted by descending specificity
parse_selectors(written) == SortDescending(written)

(***************************************************************************)
(* html/types.rs                                                           *)
(***************************************************************************)

EmptyMap == [x \in {} |-> None]

Insert(m, k, v) == [x \in (DOMAIN m) \cup {k} |-> IF x = k THEN v ELSE m[x]]

text(data) ==
    [node_type |-> "Text", tag_name |-> "", attributes |-> EmptyMap,
     data |-> data, children |-> <<>>]

elem(name, attrs, children) ==
    [node_type |-> "Element", tag_name |-> name, attributes |-> attrs,
     data |-> "", children |-> children]

\* ElementData::id: the id attribute, if present
id(e) == IF "id" \in DOMAIN e.attributes THEN <<e.attributes["id"]>> ELSE <<>>

\* ElementData::classes: the class attribute split on whitespace into a set;
\* the attribute's string is held as the sequence of its tokens
classes(e) ==
    IF "class" \in DOMAIN e.attributes THEN Range(e.attributes["class"]) ELSE {}

(***************************************************************************)
(* style.rs                                                                *)
(***************************************************************************)

matches_simple_selector(e, selector) ==
    IF \E name \in Range(selector.tag_name) : e.tag_name # name THEN FALSE
    ELSE IF \E i \in Range(selector.id) : id(e) # <<i>> THEN FALSE
    ELSE IF \E class \in Range(selector.class) : class \notin classes(e) THEN FALSE
    ELSE TRUE

matches(e, selector) == matches_simple_selector(e, selector)

\* Option<MatchedRule>: <<>> or <<(specificity, rule)>>, of the first selector
\* of the rule that matches
match_rule(e, rule) ==
    LET hits == {i \in 1..Len(rule.selectors) : matches(e, rule.selectors[i])}
    IN  IF hits = {} THEN <<>>
        ELSE <<[specificity |-> specificity(rule.selectors[Min(hits)]),
                rule |-> rule]>>

RECURSIVE matching_rules(_, _)
matching_rules(e, rules) ==
    IF rules = <<>> THEN <<>>
    ELSE matching_rules(e, SubSeq(rules, 1, Len(rules) - 1))
             \o match_rule(e, rules[Len(rules)])

\* rules.sort_by(|&(a, _), &(b, _)| a.cmp(&b)): stable, ascending
RECURSIVE InsertAscending(_, _)

\* An insertion that puts a rule before the rules of equal specificity
InsertBeforeEquals(sorted, x) ==
    IF sorted = <<>> THEN <<x>>
    ELSE IF cmp(x.specificity, sorted[Len(sorted)].specificity) > 0
         THEN Append(sorted, x)
         ELSE Append(InsertAscending(SubSeq(sorted, 1, Len(sorted) - 1), x),
                     sorted[Len(sorted)])

InsertAscending(sorted, x) ==
    IF sorted = <<>> THEN <<x>>
    ELSE IF cmp(x.specificity, sorted[Len(sorted)].specificity) >= 0
         THEN Append(sorted, x)
         ELSE Append(InsertAscending(SubSeq(sorted, 1, Len(sorted) - 1), x),
                     sorted[Len(sorted)])

\* A resolver that applies the matched rules in stylesheet order
SortOmitted(s) == s

RECURSIVE SortAscending(_)
SortAscending(s) ==
    IF s = <<>> THEN <<>>
    ELSE InsertAscending(SortAscending(SubSeq(s, 1, Len(s) - 1)), s[Len(s)])

RECURSIVE InsertDeclarations(_, _)
InsertDeclarations(values, declarations) ==
    IF declarations = <<>> THEN values
    ELSE LET d == declarations[Len(declarations)]
         IN  Insert(InsertDeclarations(values,
                        SubSeq(declarations, 1, Len(declarations) - 1)),
                    d.name, d.value)

RECURSIVE ApplyRules(_, _)
ApplyRules(values, rules) ==
    IF rules = <<>> THEN values
    ELSE InsertDeclarations(ApplyRules(values, SubSeq(rules, 1, Len(rules) - 1)),
                            rules[Len(rules)].rule.declarations)

specified_values(e, sheet) ==
    ApplyRules(EmptyMap, SortAscending(matching_rules(e, sheet.rules)))

RECURSIVE style_tree(_, _)
style_tree(root, sheet) ==
    [node |-> root,
     specified_values |->
         IF root.node_type = "Element" THEN specified_values(root, sheet)
         ELSE EmptyMap,
     children |-> [i \in 1..Len(root.children) |->
                      style_tree(root.children[i], sheet)]]

\* StyledNode::value: None, or the value of the property
value(style, name) ==
    IF name \in DOMAIN style.specified_values
    THEN style.specified_values[name] ELSE None

\* A display that falls back to block where none is declared
display_default_block(style) ==
    LET v == value(style, "display")
    IN  IF v.kind = "Keyword" /\ v.s = "none" THEN "None"
        ELSE IF v.kind = "Keyword" /\ v.s = "inline" THEN "Inline"
        ELSE "Block"

\* StyledNode::display
display(style) ==
    LET v == value(style, "display")
    IN  IF v.kind = "Keyword"
        THEN (IF v.s = "block" THEN "Block"
              ELSE IF v.s = "none" THEN "None" ELSE "Inline")
        ELSE "Inline"

\* StyledNode::lookup
lookup(style, name, fallback_name, default) ==
    IF value(style, name) # None THEN value(style, name)
    ELSE IF value(style, fallback_name) # None THEN value(style, fallback_name)
    ELSE default

(***************************************************************************)
(* The style resolver on its own: an element and a stylesheet as the CSS   *)
(* parser produces it.                                                     *)
(***************************************************************************)

\* Rules per stylesheet
MaxRules == 2

SeqsUpTo(S, n) == UNION {[1..k -> S] : k \in 0..n}

StyleAttrs ==
    {EmptyMap,
     [x \in {"id"} |-> "x"],
     [x \in {"class"} |-> <<"y">>],
     [x \in {"class"} |-> <<"z", "y">>],
     [x \in {"id", "class"} |-> IF x = "id" THEN "x" ELSE <<"y">>],
     [x \in {"id", "class"} |-> IF x = "id" THEN "w" ELSE <<"y", "z">>]}

StyleElems == {elem("div", a, <<>>) : a \in StyleAttrs}

SelId == SimpleSelector(<<"x">>, <<>>, <<>>)

SelClass == SimpleSelector(<<>>, <<"y">>, <<>>)

SelTag == SimpleSelector(<<>>, <<>>, <<"div">>)

SelTagClass == SimpleSelector(<<>>, <<"z">>, <<"div">>)

SelUniversal == SimpleSelector(<<>>, <<>>, <<>>)

\* Selector lists as written in the stylesheet source
WrittenSelectors ==
    {<<SelId>>, <<SelClass>>, <<SelTag>>, <<SelTagClass>>, <<SelUniversal>>,
     <<SelTag, SelId>>, <<SelClass, SelTagClass>>}

StyleDeclarations ==
    {<<Declaration("color", Keyword("red"))>>,
     <<Declaration("color", Keyword("blue"))>>,
     <<Declaration("color", Keyword("blue")),
       Declaration("color", Keyword("green"))>>}

StyleRules ==
    {Rule(parse_selectors(s), d) : s \in WrittenSelectors, d \in StyleDeclarations}

InitStyle ==
    /\ pc = "parsed"
    /\ root_node \in StyleElems
    /\ \E rules \in SeqsUpTo(StyleRules, MaxRules) : stylesheet = [rules |-> rules]
    /\ style_root = Nil
    /\ viewport = Nil
    /\ layout_root = Nil
    /\ display_list = Nil
    /\ canvas = Nil
    /\ item = 0
    /\ panic = ""
    /\ stack = <<>>
    /\ trace = <<>>

\* main: let style_root = style::style_tree(&root_node, &stylesheet)
StyleTree ==
    /\ pc = "parsed"
    /\ style_root' = style_tree(root_node, stylesheet)
    /\ pc' = "styled"
    /\ UNCHANGED pass
    /\ UNCHANGED <<root_node, stylesheet, viewport, layout_root, display_list,
                   canvas, item, panic>>

NextStyle == StyleTree

SpecStyle == InitStyle /\ [][NextStyle]_vars

(***************************************************************************)
(* Claims about the style resolver                                         *)
(***************************************************************************)

Declares(rule, p) ==
    \E k \in 1..Len(rule.declarations) : rule.declarations[k].name = p

LastDeclared(rule, p) ==
    rule.declarations[Max({k \in 1..Len(rule.declarations) :
                              rule.declarations[k].name = p})].value

MatchedBy(e, rule) == \E s \in Range(rule.selectors) : matches(e, s)

Outranks(a, b) ==
    \/ a[1] > b[1]
    \/ a[1] = b[1] /\ a[2] > b[2]
    \/ a[1] = b[1] /\ a[2] = b[2] /\ a[3] > b[3]

\* The specificity with which a rule matches an element: the highest among
\* its selectors that match
MatchSpecificity(e, rule) ==
    LET ms == {specificity(s) : s \in {t \in Range(rule.selectors) : matches(e, t)}}
    IN  CHOOSE s \in ms : \A t \in ms : ~Outranks(t, s)

DeclaredProperties(rules) ==
    UNION {{d.name : d \in Range(rules[i].declarations)} : i \in 1..Len(rules)}

RuleIdRed == Rule(<<SelId>>, <<Declaration("color", Keyword("red"))>>)

RuleClassBlue == Rule(<<SelClass>>, <<Declaration("color", Keyword("blue"))>>)

\* C3: when exactly two rules matching an element declare a property and one
\* matches with strictly higher specificity, the element's specified value of
\* the property is the higher-specificity rule's value, in either source order.
C3_HigherSpecificityWins ==
    pc = "styled" =>
        LET rules == stylesheet.rules
            hit(i, p) == MatchedBy(root_node, rules[i]) /\ Declares(rules[i], p)
        IN  \A p \in DeclaredProperties(rules) : \A i, j \in 1..Len(rules) :
                ( /\ i # j
                  /\ hit(i, p)
                  /\ hit(j, p)
                  /\ \A k \in 1..Len(rules) : hit(k, p) => k \in {i, j}
                  /\ Outranks(MatchSpecificity(root_node, rules[i]),
                              MatchSpecificity(root_node, rules[j])) )
                => value(style_root, p) = LastDeclared(rules[i], p)

\* `#x {color: red}` before `.y {color: blue}` on an element with id x and
\* class y: the later, lower-specificity rule does not win
C3_Witness ==
    /\ pc = "styled"
    /\ stylesheet.rules = <<RuleIdRed, RuleClassBlue>>
    /\ id(root_node) = <<"x">>
    /\ "y" \in classes(root_node)
    /\ value(style_root, "color") = Keyword("red")

\* The matching rules that declare p, as indexes into the stylesheet
Hits(p) ==
    {i \in 1..Len(stylesheet.rules) :
        MatchedBy(root_node, stylesheet.rules[i]) /\ Declares(stylesheet.rules[i], p)}

\* C12: when the two rules that match the element and declare a property
\* match with equal specificity, the property's specified value is that of
\* the rule later in the stylesheet; and within the one rule that decides a
\* property, its later declaration of the property overwrites an earlier one.
C12_LaterRuleWinsTies ==
    pc = "styled" =>
        LET rules == stylesheet.rules
        IN  \A p \in DeclaredProperties(rules) :
                /\ \A i, j \in Hits(p) :
                       ( /\ i < j
                         /\ Hits(p) = {i, j}
                         /\ MatchSpecificity(root_node, rules[i])
                                = MatchSpecificity(root_node, rules[j]) )
                       => value(style_root, p) = LastDeclared(rules[j], p)
                /\ \A i \in Hits(p) :
                       Hits(p) = {i} =>
                           value(style_root, p) = LastDeclared(rules[i], p)

RuleClassBlueGreen ==
    Rule(<<SelClass>>, <<Declaration("color", Keyword("blue")),
                         Declaration("color", Keyword("green"))>>)

RuleClassRed == Rule(<<SelClass>>, <<Declaration("color", Keyword("red"))>>)

\* `.y {color: blue; color: green}` after `.y {color: red}` on an element of
\* class y: the later rule's later declaration is the value
C12_Witness ==
    /\ pc = "styled"
    /\ stylesheet.rules = <<RuleClassRed, RuleClassBlueGreen>>
    /\ "y" \in classes(root_node)
    /\ value(style_root, "color") = Keyword("green")

\* `.y {color: blue; color: green}` before `.y {color: red}`
C12_WitnessEarlier ==
    /\ pc = "styled"
    /\ stylesheet.rules = <<RuleClassBlueGreen, RuleClassRed>>
    /\ "y" \in classes(root_node)
    /\ value(style_root, "color") = Keyword("red")

\* Tag, id and every class of the selector are the element's
SelectorMatches(e, s) ==
    /\ s.tag_name # <<>> => s.tag_name[1] = e.tag_name
    /\ s.id # <<>> => "id" \in DOMAIN e.attributes /\ e.attributes["id"] = s.id[1]
    /\ \A c \in Range(s.class) :
           /\ "class" \in DOMAIN e.attributes
           /\ \E k \in 1..Len(e.attributes["class"]) : e.attributes["class"][k] = c

\* C13: for every rule of the parsed stylesheet, match_rule on the element
\* returns a result exactly when some selector of the rule matches it, and
\* the specificity returned is the highest among the rule's selectors that
\* match.
C13_FirstMatchIsHighest ==
    pc = "styled" =>
        \A rule \in Range(stylesheet.rules) :
            LET matching == {s \in Range(rule.selectors) :
                                SelectorMatches(root_node, s)}
                result == match_rule(root_node, rule)
            IN  /\ result # <<>> <=> matching # {}
                /\ result # <<>> =>
                       /\ result[1].rule = rule
                       /\ \E s \in matching : result[1].specificity = specificity(s)
                       /\ \A s \in matching :
                              ~Outranks(specificity(s), result[1].specificity)

\* `div, #x { ... }` on <div id="x">: both selectors match and the rule
\* matches with the specificity of #x, written second
C13_Witness ==
    /\ pc = "styled"
    /\ \E rule \in Range(stylesheet.rules) :
           /\ Range(rule.selectors) = {SelTag, SelId}
           /\ SelectorMatches(root_node, SelTag)
           /\ SelectorMatches(root_node, SelId)
           /\ match_rule(root_node, rule)[1].specificity = specificity(SelId)

\* A rule none of whose selectors matches the element
C13_WitnessNoMatch ==
    /\ pc = "styled"
    /\ \E rule \in Range(stylesheet.rules) :
           /\ match_rule(root_node, rule) = <<>>
           /\ Len(rule.selectors) = 2

(***************************************************************************)
(* layout.rs                                                               *)
(***************************************************************************)

Rect(x, y, width, height) == [x |-> x, y |-> y, width |-> width, height |-> height]

EdgeSizes(left, right, top, bottom) ==
    [left |-> left, right |-> right, top |-> top, bottom |-> bottom]

\* Default::default() of Dimensions
DefaultDimensions ==
    [content |-> Rect(0, 0, 0, 0), padding |-> EdgeSizes(0, 0, 0, 0),
     border |-> EdgeSizes(0, 0, 0, 0), margin |-> EdgeSizes(0, 0, 0, 0)]

expanded_by(rect, edge) ==
    Rect(rect.x - edge.left, rect.y - edge.top,
         rect.width + edge.left + edge.right,
         rect.height + edge.top + edge.bottom)

padding_box(d) == expanded_by(d.content, d.padding)

border_box(d) == expanded_by(padding_box(d), d.border)

margin_box(d) == expanded_by(border_box(d), d.margin)

\* LayoutBox::new; box_type is BlockNode or InlineNode (style is the styled
\* node it refers to) or AnonymousBlock (style is Nil)
LayoutBox(box_type, style) ==
    [box_type |-> box_type, style |-> style, dimensions |-> DefaultDimensions,
     children |-> <<>>]

\* The result of a call that panicked
Panicked(msg) ==
    [box_type |-> "Panic", style |-> msg, dimensions |-> DefaultDimensions,
     children |-> <<>>]

IsPanic(box) == box.box_type = "Panic"

NoStyleNode == [panic |-> "Anonymous block box has no style node"]

get_style_node(self) ==
    IF self.box_type \in {"BlockNode", "InlineNode"} THEN self.style
    ELSE NoStyleNode

push(self, child) == [self EXCEPT !.children = Append(@, child)]

\* A container lookup that never reuses the trailing Anonymous box
get_inline_container_fresh(self) ==
    IF self.box_type \in {"InlineNode", "AnonymousBlock"} THEN self
    ELSE push(self, LayoutBox("AnonymousBlock", Nil))

\* self after get_inline_container: a Block whose last child is not an
\* Anonymous box has got a new, empty one
get_inline_container(self) ==
    IF self.box_type \in {"InlineNode", "AnonymousBlock"} THEN self
    ELSE IF self.children # <<>>
            /\ self.children[Len(self.children)].box_type = "AnonymousBlock"
         THEN self
         ELSE push(self, LayoutBox("AnonymousBlock", Nil))

\* root.get_inline_container().children.push(child): the container is self
\* for an Inline or Anonymous box and the last child for a Block
push_inline(self, child) ==
    LET after == get_inline_container(self)
        n == Len(after.children)
    IN  IF self.box_type \in {"InlineNode", "AnonymousBlock"}
        THEN push(after, child)
        ELSE [after EXCEPT !.children[n] = push(@, child)]

RECURSIVE build_layout_tree(_)
RECURSIVE build_children(_, _, _)

\* The loop of build_layout_tree over the first n children of the styled node
build_children(root, children, n) ==
    IF n = 0 THEN root
    ELSE LET before == build_children(root, children, n - 1)
             child == children[n]
             built == build_layout_tree(child)
         IN  IF IsPanic(before) THEN before
             ELSE IF display(child) = "None" THEN before
             ELSE IF IsPanic(built) THEN built
             ELSE IF display(child) = "Block" THEN push(before, built)
             ELSE push_inline(before, built)

build_layout_tree(style_node) ==
    IF display(style_node) = "None" THEN Panicked("Root node has display: none.")
    ELSE build_children(
             LayoutBox(IF display(style_node) = "Block" THEN "BlockNode"
                       ELSE "InlineNode", style_node),
             style_node.children, Len(style_node.children))

\* An even split that forgets to halve
HalfOmitted(f) == f

\* underflow / 2.0
Half(f) == f \div 2

\* The remaining space taken with the wrong sign
underflow_reversed(containing_width, total) == total - containing_width

\* let underflow = containing_block.content.width - total
underflow_of(containing_width, total) == containing_width - total

\* A width that takes the underflow also when it is negative
auto_width_unchecked(underflow) == Length(underflow)

\* width auto: expand to the underflow, but never below 0
auto_width(underflow) ==
    IF underflow >= 0 THEN Length(underflow) ELSE Length(0)

calculate_block_width(self, containing_block) ==
    LET style == get_style_node(self)
        auto == Keyword("auto")
        width0 == IF value(style, "width") # None THEN value(style, "width")
                  ELSE auto
        zero == Length(0)
        margin_left0 == lookup(style, "margin-left", "margin", zero)
        margin_right0 == lookup(style, "margin-right", "margin", zero)
        border_left == lookup(style, "border-left-width", "border-width", zero)
        border_right == lookup(style, "border-right-width", "border-width", zero)
        padding_left == lookup(style, "padding-left", "padding", zero)
        padding_right == lookup(style, "padding-right", "padding", zero)
        total == to_px(margin_left0) + to_px(margin_right0) + to_px(border_left)
                 + to_px(border_right) + to_px(padding_left)
                 + to_px(padding_right) + to_px(width0)
        shrink == width0 # auto /\ total > containing_block.content.width
        margin_left1 == IF shrink /\ margin_left0 = auto THEN Length(0)
                        ELSE margin_left0
        margin_right1 == IF shrink /\ margin_right0 = auto THEN Length(0)
                         ELSE margin_right0
        underflow == underflow_of(containing_block.content.width, total)
        wa == width0 = auto
        la == margin_left1 = auto
        ra == margin_right1 = auto
        \* (true, _, _): the auto margins become 0
        margin_left_w == IF la THEN Length(0) ELSE margin_left1
        margin_right_w == IF ra THEN Length(0) ELSE margin_right1
        width == IF wa THEN auto_width(underflow) ELSE width0
        margin_left ==
            IF wa THEN margin_left_w
            ELSE IF la /\ ~ra THEN Length(underflow)
            ELSE IF la /\ ra THEN Length(Half(underflow))
            ELSE margin_left1
        margin_right ==
            IF wa THEN (IF underflow >= 0 THEN margin_right_w
                        ELSE Length(to_px(margin_right_w) + underflow))
            ELSE IF ~la /\ ~ra THEN Length(to_px(margin_right1) + underflow)
            ELSE IF ~la /\ ra THEN Length(underflow)
            ELSE IF la /\ ra THEN Length(Half(underflow))
            ELSE margin_right1
    IN  IF style = NoStyleNode THEN Panicked(NoStyleNode.panic)
        ELSE [self EXCEPT
                 !.dimensions.content.width = to_px(width),
                 !.dimensions.padding.left = to_px(padding_left),
                 !.dimensions.padding.right = to_px(padding_right),
                 !.dimensions.border.left = to_px(border_left),
                 !.dimensions.border.right = to_px(border_right),
                 !.dimensions.margin.left = to_px(margin_left),
                 !.dimensions.margin.right = to_px(margin_right)]

\* A position that stacks the box below the height the containing block has
\* accumulated so far
calculate_block_position_stacked(self, containing_block) ==
    LET style == get_style_node(self)
        zero == Length(0)
        margin_top == to_px(lookup(style, "margin-top", "margin", zero))
        border_top == to_px(lookup(style, "border-top-width", "border-width", zero))
        padding_top == to_px(lookup(style, "padding-top", "padding", zero))
        d == self.dimensions
    IN  IF IsPanic(self) THEN self
        ELSE IF style = NoStyleNode THEN Panicked(NoStyleNode.panic)
        ELSE [self EXCEPT
                 !.dimensions.margin.top = margin_top,
                 !.dimensions.margin.bottom =
                     to_px(lookup(style, "margin-bottom", "margin", zero)),
                 !.dimensions.border.top = border_top,
                 !.dimensions.border.bottom =
                     to_px(lookup(style, "border-bottom-width", "border-width",
                                  zero)),
                 !.dimensions.padding.top = padding_top,
                 !.dimensions.padding.bottom =
                     to_px(lookup(style, "padding-bottom", "padding", zero)),
                 !.dimensions.content.x =
                     containing_block.content.x + d.margin.left + d.border.left
                     + d.padding.left,
                 !.dimensions.content.y =
                     containing_block.content.height + containing_block.content.y
                     + margin_top + border_top + padding_top]

calculate_block_position(self, containing_block) ==
    LET style == get_style_node(self)
        zero == Length(0)
        margin_top == to_px(lookup(style, "margin-top", "margin", zero))
        margin_bottom == to_px(lookup(style, "margin-bottom", "margin", zero))
        border_top == to_px(lookup(style, "border-top-width", "border-width", zero))
        border_bottom ==
            to_px(lookup(style, "border-bottom-width", "border-width", zero))
        padding_top == to_px(lookup(style, "padding-top", "padding", zero))
        padding_bottom == to_px(lookup(style, "padding-bottom", "padding", zero))
        d == self.dimensions
    IN  IF IsPanic(self) THEN self
        ELSE IF style = NoStyleNode THEN Panicked(NoStyleNode.panic)
        ELSE [self EXCEPT
                 !.dimensions.margin.top = margin_top,
                 !.dimensions.margin.bottom = margin_bottom,
                 !.dimensions.border.top = border_top,
                 !.dimensions.border.bottom = border_bottom,
                 !.dimensions.padding.top = padding_top,
                 !.dimensions.padding.bottom = padding_bottom,
                 !.dimensions.content.x =
                     containing_block.content.x + d.margin.left + d.border.left
                     + d.padding.left,
                 !.dimensions.content.y =
                     containing_block.content.y + margin_top + border_top
                     + padding_top]

calculate_block_height(self) ==
    LET style == get_style_node(self)
        h == value(style, "height")
    IN  IF IsPanic(self) THEN self
        ELSE IF style = NoStyleNode THEN Panicked(NoStyleNode.panic)
        ELSE IF h.kind = "Length" THEN [self EXCEPT !.dimensions.content.height = h.f]
        ELSE self

RECURSIVE layout(_, _)
RECURSIVE layout_children(_, _)

\* A loop that assigns the child's height where it should add it
add_child_height_assigned(self, n, child) ==
    IF IsPanic(child) THEN child
    ELSE [self EXCEPT
             !.children[n] = child,
             !.dimensions.content.height = margin_box(child.dimensions).height]

\* d.content.height = d.content.height + child.dimensions.margin_box().height,
\* with the child as its layout left it
add_child_height(self, n, child) ==
    IF IsPanic(child) THEN child
    ELSE [self EXCEPT
             !.children[n] = child,
             !.dimensions.content.height =
                 @ + margin_box(child.dimensions).height]

\* One turn of the loop of layout_block_children: child.layout(*d), the
\* parent's dimensions as they are at that turn, then the height
layout_child(self, n) ==
    IF IsPanic(self) THEN self
    ELSE add_child_height(self, n, layout(self.children[n], self.dimensions))

\* The loop of layout_block_children over the first n children
layout_children(self, n) ==
    IF n = 0 THEN self ELSE layout_child(layout_children(self, n - 1), n)

layout_block_children(self) == layout_children(self, Len(self.children))

\* A panic in one call unwinds through the calls that follow it
layout_block(self, containing_block) ==
    calculate_block_height(
        layout_block_children(
            calculate_block_position(
                calculate_block_width(self, containing_block),
                containing_block)))

\* A dispatch that sends Anonymous boxes through layout_block as well
layout_every_block(self, containing_block) ==
    IF self.box_type \in {"BlockNode", "AnonymousBlock"}
    THEN layout_block(self, containing_block)
    ELSE self

\* A dispatch that sends Inline boxes through layout_block as well
layout_every_styled(self, containing_block) ==
    IF self.box_type \in {"BlockNode", "InlineNode"}
    THEN layout_block(self, containing_block)
    ELSE self

layout(self, containing_block) ==
    IF self.box_type = "BlockNode" THEN layout_block(self, containing_block)
    ELSE self

\* layout_tree: the containing block's height starts at 0
layout_tree(node, containing_block) ==
    LET root_box == build_layout_tree(node)
    IN  IF IsPanic(root_box) THEN root_box
        ELSE layout(root_box, [containing_block EXCEPT !.content.height = 0])

\* main: a viewport of the given size, in pixels
Viewport(width, height) ==
    [DefaultDimensions EXCEPT !.content.width = Px(width),
                              !.content.height = Px(height)]

\* A styled node with the given property map, as style_tree leaves it
Styled(node, values, children) ==
    [node |-> node, specified_values |-> values, children |-> children]

(***************************************************************************)
(* calculate_block_width on its own: one Block box without children, every *)
(* combination of the properties it reads, in a containing block of a      *)
(* given content width.                                                    *)
(***************************************************************************)

\* Largest border and padding length, in px
MaxEdge == 1

\* The properties that have a value, from a function that maps the others to None
Props(f) == [n \in {m \in DOMAIN f : f[m] # None} |-> f[n]]

WidthOptions == {None, Keyword("auto"), Length(Px(2)), Length(Px(100))}

MarginOptions == {None, Keyword("auto"), Length(Px(1))}

MarginShorthands == {None, Keyword("auto"), Length(Px(3))}

EdgeOptions == {None} \cup {Length(Px(n)) : n \in 1..MaxEdge}

EdgeShorthands == {None, Length(Px(2))}

ContainingWidths == {Px(0), Px(4), Px(200), Px(300)}

WidthStyles ==
    {Props(("width" :> w) @@ ("margin-left" :> ml) @@ ("margin-right" :> mr)
           @@ ("margin" :> m) @@ ("border-left-width" :> bl)
           @@ ("border-right-width" :> br) @@ ("border-width" :> b)
           @@ ("padding-left" :> pl) @@ ("padding-right" :> pr)
           @@ ("padding" :> p)) :
        w \in WidthOptions, ml \in MarginOptions, mr \in MarginOptions,
        m \in MarginShorthands, bl \in EdgeOptions, br \in EdgeOptions,
        b \in EdgeShorthands, pl \in EdgeOptions, pr \in EdgeOptions,
        p \in EdgeShorthands}

InitWidth ==
    /\ pc = "width"
    /\ root_node = elem("div", EmptyMap, <<>>)
    /\ stylesheet = Nil
    /\ \E values \in WidthStyles : style_root = Styled(root_node, values, <<>>)
    /\ \E w \in ContainingWidths :
           viewport = [DefaultDimensions EXCEPT !.content.width = w]
    /\ layout_root = LayoutBox("BlockNode", style_root)
    /\ display_list = Nil
    /\ canvas = Nil
    /\ item = 0
    /\ panic = ""
    /\ stack = <<>>
    /\ trace = <<>>

\* layout_block: self.calculate_block_width(containing_block)
CalculateBlockWidth ==
    /\ pc = "width"
    /\ layout_root' = calculate_block_width(layout_root, viewport)
    /\ pc' = "sized"
    /\ UNCHANGED pass
    /\ UNCHANGED <<root_node, stylesheet, style_root, viewport, display_list,
                   canvas, item, panic>>

NextWidth == CalculateBlockWidth

SpecWidth == InitWidth /\ [][NextWidth]_vars

(***************************************************************************)
(* Claims about calculate_block_width                                      *)
(***************************************************************************)

Specified(name, shorthand) ==
    IF name \in DOMAIN style_root.specified_values
    THEN style_root.specified_values[name]
    ELSE IF shorthand \in DOMAIN style_root.specified_values
    THEN style_root.specified_values[shorthand]
    ELSE Length(0)

SpecifiedWidth ==
    IF "width" \in DOMAIN style_root.specified_values
    THEN style_root.specified_values["width"] ELSE Keyword("auto")

PxOf(v) == IF v.kind = "Length" THEN v.f ELSE 0

IsAuto(v) == v.kind = "Keyword" /\ v.s = "auto"

\* The sum of the specified horizontal lengths, auto counted as 0
SpecifiedTotal ==
    PxOf(Specified("margin-left", "margin"))
    + PxOf(Specified("border-left-width", "border-width"))
    + PxOf(Specified("padding-left", "padding")) + PxOf(SpecifiedWidth)
    + PxOf(Specified("padding-right", "padding"))
    + PxOf(Specified("border-right-width", "border-width"))
    + PxOf(Specified("margin-right", "margin"))

ContainingWidth == viewport.content.width

UsedTotal ==
    LET d == layout_root.dimensions
    IN  d.margin.left + d.border.left + d.padding.left + d.content.width
        + d.padding.right + d.border.right + d.margin.right

\* C2: after calculate_block_width on a Block box whose specified horizontal
\* lengths sum to at most the containing block's content width, the used
\* margins, borders, paddings and content width sum to exactly that width.
C2_FillsContainingBlock ==
    (pc = "sized" /\ SpecifiedTotal <= ContainingWidth)
        => UsedTotal = ContainingWidth

\* margin-right auto beside a border and a padding: the margin takes the rest
C2_Witness ==
    /\ pc = "sized"
    /\ SpecifiedTotal <= ContainingWidth
    /\ SpecifiedWidth.kind = "Length"
    /\ IsAuto(Specified("margin-right", "margin"))
    /\ ~IsAuto(Specified("margin-left", "margin"))
    /\ layout_root.dimensions.border.left > 0
    /\ layout_root.dimensions.padding.right > 0
    /\ layout_root.dimensions.margin.right > 0
    /\ UsedTotal = ContainingWidth

\* C5: width a pixel length, both margins auto, total within the containing
\* width: each margin is half of the underflow and content.width is the
\* specified width.
C5_AutoMarginsCentre ==
    ( /\ pc = "sized"
      /\ SpecifiedWidth.kind = "Length"
      /\ IsAuto(Specified("margin-left", "margin"))
      /\ IsAuto(Specified("margin-right", "margin"))
      /\ SpecifiedTotal <= ContainingWidth )
    => LET d == layout_root.dimensions
       IN  /\ d.margin.left + d.margin.left = ContainingWidth - SpecifiedTotal
           /\ d.margin.right = d.margin.left
           /\ d.content.width = SpecifiedWidth.f

\* width 100px, both margins auto, in a 300px container: 100px each side
C5_Witness ==
    /\ pc = "sized"
    /\ style_root.specified_values =
           ("width" :> Length(Px(100))) @@ ("margin-left" :> Keyword("auto"))
           @@ ("margin-right" :> Keyword("auto"))
    /\ ContainingWidth = Px(300)
    /\ layout_root.dimensions.margin.left = Px(100)
    /\ layout_root.dimensions.margin.right = Px(100)
    /\ layout_root.dimensions.content.width = Px(100)

\* C6: width auto: auto margins become 0; with underflow >= 0 the content
\* width is the underflow, otherwise the content width is 0 and margin.right
\* is its specified value (0 if auto) plus the underflow; content.width >= 0.
C6_AutoWidthFills ==
    (pc = "sized" /\ IsAuto(SpecifiedWidth))
    => LET d == layout_root.dimensions
           ml == Specified("margin-left", "margin")
           mr == Specified("margin-right", "margin")
           rest == ContainingWidth - SpecifiedTotal
       IN  /\ d.margin.left = PxOf(ml)
           /\ rest >= 0 => d.content.width = rest /\ d.margin.right = PxOf(mr)
           /\ rest < 0 => d.content.width = 0 /\ d.margin.right = PxOf(mr) + rest
           /\ d.content.width >= 0

\* no width, margin, border or padding in a 200px container: width 200px
C6_Witness ==
    /\ pc = "sized"
    /\ style_root.specified_values = EmptyMap
    /\ ContainingWidth = Px(200)
    /\ layout_root.dimensions.content.width = Px(200)

\* width auto and more margin, border and padding than the container holds
C6_WitnessOverflow ==
    /\ pc = "sized"
    /\ IsAuto(SpecifiedWidth)
    /\ IsAuto(Specified("margin-right", "margin"))
    /\ ContainingWidth - SpecifiedTotal < 0
    /\ layout_root.dimensions.content.width = 0
    /\ layout_root.dimensions.margin.right < 0

\* C14: for a box whose width is a length, when neither margin is auto or
\* when the specified total exceeds the containing width, calculate_block_width
\* leaves content.width the specified width, margin.left its specified value
\* (0 for auto) and margin.right its specified value (0 for auto) plus the
\* underflow, so a total above the containing width makes margin.right
\* smaller than specified.
C14_RightMarginAbsorbs ==
    pc = "sized" =>
        LET left == Specified("margin-left", "margin")
            right == Specified("margin-right", "margin")
            d == layout_root.dimensions
        IN  ( /\ SpecifiedWidth.kind = "Length"
              /\ \/ ~IsAuto(left) /\ ~IsAuto(right)
                 \/ SpecifiedTotal > ContainingWidth )
            => /\ d.content.width = SpecifiedWidth.f
               /\ d.margin.left = PxOf(left)
               /\ d.margin.right = PxOf(right) + (ContainingWidth - SpecifiedTotal)
               /\ SpecifiedTotal > ContainingWidth => d.margin.right < PxOf(right)

\* width 100px in a containing block 4px wide, margin-left auto and
\* margin-right 1px: the auto margin is 0 and margin.right is negative
C14_Witness ==
    /\ pc = "sized"
    /\ SpecifiedWidth = Length(Px(100))
    /\ ContainingWidth = Px(4)
    /\ IsAuto(Specified("margin-left", "margin"))
    /\ Specified("margin-right", "margin") = Length(Px(1))
    /\ layout_root.dimensions.margin.left = 0
    /\ layout_root.dimensions.margin.right < 0

\* No auto margin and room to spare: margin.right grows by the underflow
C14_WitnessRoom ==
    /\ pc = "sized"
    /\ SpecifiedWidth = Length(Px(100))
    /\ ContainingWidth = Px(300)
    /\ Specified("margin-left", "margin") = Length(Px(1))
    /\ Specified("margin-right", "margin") = Length(Px(1))
    /\ layout_root.dimensions.margin.right > Px(1)

(***************************************************************************)
(* layout_tree on styled trees that differ in shape and in display.        *)
(***************************************************************************)

\* Children of the root styled node
MaxChildren == 4

DisplayBlock == "display" :> Keyword("block")

DisplayNone == "display" :> Keyword("none")

\* No display property: StyledNode::display resolves to inline
DisplayAbsent == EmptyMap

Displays == {DisplayBlock, DisplayAbsent, DisplayNone}

Leaf(values) == Styled(text("x"), values, <<>>)

Node(values, children) == Styled(elem("div", EmptyMap, <<>>), values, children)

\* The styled nodes a root's children are drawn from: leaves of each display,
\* and nodes with children of their own
BuildKids ==
    {Leaf(v) : v \in Displays}
    \cup {Node(DisplayBlock, <<Leaf(DisplayAbsent), Leaf(DisplayBlock)>>),
          Node(DisplayBlock, <<Leaf(DisplayNone), Leaf(DisplayAbsent),
                               Leaf(DisplayAbsent)>>),
          Node(DisplayAbsent, <<Leaf(DisplayBlock), Leaf(DisplayAbsent)>>),
          Node(DisplayNone, <<Leaf(DisplayBlock)>>)}

BuildTrees ==
    {Node(v, kids) : v \in Displays, kids \in SeqsUpTo(BuildKids, MaxChildren)}

InitBuild ==
    /\ pc = "styled"
    /\ root_node = elem("div", EmptyMap, <<>>)
    /\ stylesheet = Nil
    /\ style_root \in BuildTrees
    /\ viewport = Viewport(8, 6)
    /\ layout_root = Nil
    /\ display_list = Nil
    /\ canvas = Nil
    /\ item = 0
    /\ panic = ""
    /\ stack = <<>>
    /\ trace = <<>>

\* layout_tree: let mut root_box = build_layout_tree(node)
BuildLayoutTree ==
    /\ pc = "styled"
    /\ LET root_box == build_layout_tree(style_root)
       IN  IF IsPanic(root_box)
           THEN pc' = "panic" /\ panic' = root_box.style /\ layout_root' = Nil
           ELSE pc' = "built" /\ panic' = panic /\ layout_root' = root_box
    /\ UNCHANGED pass
    /\ UNCHANGED <<root_node, stylesheet, style_root, viewport, display_list,
                   canvas, item>>

\* layout_tree: root_box.layout(containing_block), the height taken as 0
Layout ==
    /\ pc = "built"
    /\ LET root_box == layout(layout_root,
                              [viewport EXCEPT !.content.height = 0])
       IN  IF IsPanic(root_box)
           THEN pc' = "panic" /\ panic' = root_box.style /\ layout_root' = Nil
           ELSE pc' = "laid" /\ panic' = panic /\ layout_root' = root_box
    /\ UNCHANGED pass
    /\ UNCHANGED <<root_node, stylesheet, style_root, viewport, display_list,
                   canvas, item>>

NextBuild == BuildLayoutTree \/ Layout

SpecBuild == InitBuild /\ [][NextBuild]_vars

(***************************************************************************)
(* Claims about the box tree                                               *)
(***************************************************************************)

\* Every box of a tree, the root included
RECURSIVE BoxesOf(_)
BoxesOf(box) ==
    {box} \cup UNION {BoxesOf(box.children[i]) : i \in 1..Len(box.children)}

RECURSIVE Concat(_)
Concat(seqs) ==
    IF seqs = <<>> THEN <<>>
    ELSE Concat(SubSeq(seqs, 1, Len(seqs) - 1)) \o seqs[Len(seqs)]

\* The children of a box with every Anonymous child replaced by its children
Unwrapped(box) ==
    Concat([i \in 1..Len(box.children) |->
               IF box.children[i].box_type = "AnonymousBlock"
               THEN box.children[i].children ELSE <<box.children[i]>>])

RECURSIVE Kept(_)
\* The styled children that are not display:none, in document order
Kept(children) ==
    IF children = <<>> THEN <<>>
    ELSE LET last == children[Len(children)]
             rest == Kept(SubSeq(children, 1, Len(children) - 1))
         IN  IF display(last) = "None" THEN rest ELSE Append(rest, last)

ChildrenFollowRule(box) ==
    LET kept == Kept(box.style.children)
        flat == Unwrapped(box)
        kids == box.children
    IN  /\ Len(flat) = Len(kept)
        /\ \A j \in 1..Len(kept) :
               /\ flat[j].style = kept[j]
               /\ flat[j].box_type =
                      (IF display(kept[j]) = "Block" THEN "BlockNode"
                       ELSE "InlineNode")
        /\ \A i \in 1..Len(kids) :
               /\ kids[i].box_type \in {"BlockNode", "AnonymousBlock"}
               /\ kids[i].box_type = "AnonymousBlock" =>
                      /\ kids[i].children # <<>>
                      /\ \A c \in Range(kids[i].children) : c.box_type = "InlineNode"
                      /\ i > 1 => kids[i - 1].box_type # "AnonymousBlock"

\* C4: the children of every Block box are the styled node's children in
\* document order without the display:none ones, each display:block child a
\* direct Block child and each maximal run of display:inline children inside
\* exactly one Anonymous box.
C4_AnonymousRuns ==
    pc \in {"built", "laid"} =>
        \A box \in BoxesOf(layout_root) :
            box.box_type = "BlockNode" => ChildrenFollowRule(box)

\* children [inline, inline, block, inline] of a block parent: 3 boxes
C4_Witness ==
    /\ pc = "built"
    /\ style_root = Node(DisplayBlock, <<Leaf(DisplayAbsent), Leaf(DisplayAbsent),
                                         Leaf(DisplayBlock), Leaf(DisplayAbsent)>>)
    /\ Len(layout_root.children) = 3
    /\ layout_root.children[1].box_type = "AnonymousBlock"
    /\ Len(layout_root.children[1].children) = 2
    /\ layout_root.children[2].box_type = "BlockNode"
    /\ layout_root.children[3].box_type = "AnonymousBlock"
    /\ Len(layout_root.children[3].children) = 1

\* C17: in every box tree built, an Anonymous box is never the root, is a
\* child of a Block box only, has at least one child and only Inline boxes
\* as children, and has no Anonymous box as its neighbour on either side.
C17_AnonymousPlacement ==
    pc \in {"built", "laid"} =>
        /\ layout_root.box_type # "AnonymousBlock"
        /\ \A box \in BoxesOf(layout_root) :
               \A i \in 1..Len(box.children) :
                   box.children[i].box_type = "AnonymousBlock" =>
                       /\ box.box_type = "BlockNode"
                       /\ Len(box.children[i].children) >= 1
                       /\ \A k \in 1..Len(box.children[i].children) :
                              box.children[i].children[k].box_type = "InlineNode"
                       /\ i > 1 => box.children[i - 1].box_type # "AnonymousBlock"
                       /\ i < Len(box.children) =>
                              box.children[i + 1].box_type # "AnonymousBlock"

\* A tree with two Anonymous boxes under one Block box, one of them holding
\* two Inline boxes, and with an Inline box that holds an Inline box directly
C17_Witness ==
    /\ pc = "built"
    /\ \E box \in BoxesOf(layout_root) :
           /\ box.box_type = "BlockNode"
           /\ Cardinality({i \in 1..Len(box.children) :
                              box.children[i].box_type = "AnonymousBlock"}) = 2
           /\ \E i \in 1..Len(box.children) :
                  /\ box.children[i].box_type = "AnonymousBlock"
                  /\ Len(box.children[i].children) = 2
    /\ \E box \in BoxesOf(layout_root) :
           /\ box.box_type = "InlineNode"
           /\ \E c \in Range(box.children) : c.box_type = "InlineNode"

RootNonePanic == "Root node has display: none."

\* C10: layout_tree panics exactly when the root styled node resolves to
\* display none: building then stops with the root panic, every other tree
\* is built and then laid out, and no step panics for an Anonymous box.
C10_PanicsOnlyOnRootNone ==
    [][ /\ pc = "styled" =>
            IF display(style_root) = "None"
            THEN pc' = "panic" /\ panic' = RootNonePanic
            ELSE pc' = "built" /\ panic' = ""
        /\ pc = "built" => pc' = "laid" /\ panic' = "" ]_vars

\* A laid-out tree with a display:none node below the root and an Anonymous box
C10_Witness ==
    /\ pc = "laid"
    /\ \E i \in 1..Len(style_root.children) :
           display(style_root.children[i]) = "None"
    /\ \E box \in BoxesOf(layout_root) : box.box_type = "AnonymousBlock"
    /\ panic = ""

(***************************************************************************)
(* layout_tree on styled trees whose nodes differ in height, margins,      *)
(* borders and padding.                                                    *)
(***************************************************************************)

\* Children of the root styled node
MaxSiblings == 2

TallBlock ==
    DisplayBlock @@ ("height" :> Length(Px(2))) @@ ("margin" :> Length(Px(1)))

PaddedBlock ==
    DisplayBlock @@ ("width" :> Length(Px(4))) @@ ("margin-left" :> Length(Px(3)))
    @@ ("padding-top" :> Length(Px(1))) @@ ("border-width" :> Length(Px(1)))

\* height: auto is a keyword, not a length
AutoBlock ==
    DisplayBlock @@ ("height" :> Keyword("auto"))
    @@ ("margin-top" :> Length(Px(1))) @@ ("margin-bottom" :> Length(Px(2)))

TallInline ==
    ("height" :> Length(Px(3))) @@ ("width" :> Length(Px(4)))
    @@ ("margin" :> Length(Px(1))) @@ ("padding" :> Length(Px(1)))

LayoutStyles ==
    {DisplayBlock, TallBlock, PaddedBlock, AutoBlock, DisplayAbsent, TallInline,
     DisplayNone}

LayoutKids ==
    {Leaf(v) : v \in LayoutStyles}
    \cup {Node(TallBlock, <<Leaf(AutoBlock), Leaf(DisplayAbsent)>>),
          Node(TallInline, <<Leaf(TallBlock)>>),
          Node(DisplayBlock, <<Leaf(PaddedBlock), Leaf(TallBlock)>>),
          Node(AutoBlock, <<Node(DisplayBlock, <<Leaf(TallBlock)>>)>>)}

LayoutTrees ==
    {Node(v, kids) : v \in {DisplayBlock, PaddedBlock, TallBlock, TallInline},
                     kids \in SeqsUpTo(LayoutKids, MaxSiblings)}

InitLayout ==
    /\ pc = "styled"
    /\ root_node = elem("div", EmptyMap, <<>>)
    /\ stylesheet = Nil
    /\ style_root \in LayoutTrees
    /\ viewport = Viewport(8, 6)
    /\ layout_root = Nil
    /\ display_list = Nil
    /\ canvas = Nil
    /\ item = 0
    /\ panic = ""
    /\ stack = <<>>
    /\ trace = <<>>

NextLayout == BuildLayoutTree \/ Layout

SpecLayout == InitLayout /\ [][NextLayout]_vars

(***************************************************************************)
(* Claims about the laid-out tree                                          *)
(***************************************************************************)

\* The specified length of a property in px, by its own name or by its
\* shorthand, 0 when neither is a length
SpecifiedPx(box, name, shorthand) ==
    LET values == box.style.specified_values
    IN  IF name \in DOMAIN values THEN PxOf(values[name])
        ELSE IF shorthand \in DOMAIN values THEN PxOf(values[shorthand])
        ELSE 0

\* box, when it is a Block box, lies in the content rectangle containing as
\* C15 says, and so does every Block box layout reaches below it
RECURSIVE Positioned(_, _)
Positioned(box, containing) ==
    box.box_type = "BlockNode" =>
        LET d == box.dimensions
        IN  /\ d.margin.top = SpecifiedPx(box, "margin-top", "margin")
            /\ d.margin.bottom = SpecifiedPx(box, "margin-bottom", "margin")
            /\ d.border.top = SpecifiedPx(box, "border-top-width", "border-width")
            /\ d.border.bottom =
                   SpecifiedPx(box, "border-bottom-width", "border-width")
            /\ d.padding.top = SpecifiedPx(box, "padding-top", "padding")
            /\ d.padding.bottom = SpecifiedPx(box, "padding-bottom", "padding")
            /\ d.content.x =
                   containing.x + d.margin.left + d.border.left + d.padding.left
            /\ d.content.y =
                   containing.y + d.margin.top + d.border.top + d.padding.top
            /\ \A i \in 1..Len(box.children) :
                   Positioned(box.children[i], d.content)

\* C15: every Block box that is laid out has content.x = containing.x +
\* margin.left + border.left + padding.left and content.y = containing.y +
\* margin.top + border.top + padding.top, containing being the parent's
\* content rectangle or the viewport and the top and bottom edges the
\* specified lengths or 0, whatever the box's place among its siblings.
C15_PositionFromContaining ==
    pc = "laid" => Positioned(layout_root, viewport.content)

\* A Block box with margin-top 1px laid out after a sibling 4px high, at the
\* same content.y as if it came first
C15_Witness ==
    /\ pc = "laid"
    /\ layout_root.box_type = "BlockNode"
    /\ Len(layout_root.children) = 2
    /\ layout_root.children[1].box_type = "BlockNode"
    /\ margin_box(layout_root.children[1].dimensions).height = Px(4)
    /\ layout_root.children[2].box_type = "BlockNode"
    /\ layout_root.children[2].style.specified_values = TallBlock
    /\ layout_root.children[2].dimensions.content.y
           = layout_root.dimensions.content.y + Px(1)

MarginBoxHeightIfBlock(box) ==
    IF box.box_type = "BlockNode"
    THEN box.dimensions.content.height + box.dimensions.padding.top
         + box.dimensions.padding.bottom + box.dimensions.border.top
         + box.dimensions.border.bottom + box.dimensions.margin.top
         + box.dimensions.margin.bottom
    ELSE 0

\* The margin-box heights of the Block boxes among the first n children
RECURSIVE BlockChildrenHeight(_, _)
BlockChildrenHeight(children, n) ==
    IF n = 0 THEN 0
    ELSE BlockChildrenHeight(children, n - 1) + MarginBoxHeightIfBlock(children[n])

HasHeight(box) ==
    /\ "height" \in DOMAIN box.style.specified_values
    /\ box.style.specified_values["height"].kind = "Length"

\* The Block boxes layout reaches from box: box itself when it is a Block
\* box, and those reached from its children
RECURSIVE Reached(_)
Reached(box) ==
    IF box.box_type # "BlockNode" THEN {}
    ELSE {box} \cup UNION {Reached(box.children[i]) : i \in 1..Len(box.children)}

\* C16: after layout every Inline and every Anonymous box, and every box
\* below one, a Block box included, has all-zero dimensions, and the content
\* height of a Block box without a height of its own counts its Block
\* children only.
C16_InlineStaysZero ==
    pc = "laid" =>
        /\ \A box \in BoxesOf(layout_root) :
               box.box_type \in {"InlineNode", "AnonymousBlock"} =>
                   \A below \in BoxesOf(box) : below.dimensions = DefaultDimensions
        /\ \A box \in Reached(layout_root) :
               ~HasHeight(box) =>
                   box.dimensions.content.height
                       = BlockChildrenHeight(box.children, Len(box.children))

\* A laid-out Block box with an explicit-height Inline child that holds a
\* Block box, next to a Block child that has a height
C16_Witness ==
    /\ pc = "laid"
    /\ layout_root.box_type = "BlockNode"
    /\ ~HasHeight(layout_root)
    /\ \E a \in Range(layout_root.children) :
           /\ a.box_type = "AnonymousBlock"
           /\ \E c \in Range(a.children) :
                  /\ c.style.specified_values = TallInline
                  /\ \E b \in Range(c.children) : b.box_type = "BlockNode"
    /\ \E b \in Range(layout_root.children) :
           b.box_type = "BlockNode" /\ b.dimensions.content.height > 0
    /\ layout_root.dimensions.content.height > 0

(***************************************************************************)
(* The layout pass taken step by step: each call of LayoutBox::layout is a *)
(* frame of stack, and each statement of layout_block one step on the box  *)
(* the innermost frame is about.  A box is named by its path: the child    *)
(* indexes that lead to it from the root.                                  *)
(***************************************************************************)

RECURSIVE BoxAt(_, _)
BoxAt(box, path) ==
    IF path = <<>> THEN box ELSE BoxAt(box.children[Head(path)], Tail(path))

\* The tree with the box at path replaced
RECURSIVE Replace(_, _, _)
Replace(box, path, new) ==
    IF path = <<>> THEN new
    ELSE [box EXCEPT !.children[Head(path)] = Replace(@, Tail(path), new)]

\* A body of layout_block that finalizes the height before the children pass
layout_block_height_first == <<"width", "position", "height", "children">>

\* The statements of layout_block, in order
layout_block_steps == <<"width", "position", "children", "height">>

\* self.layout(containing_block) just called: step 0 is the match on
\* box_type, steps 1 to 4 the statements of layout_block, and child counts
\* the turns of the loop of layout_block_children that are over
Frame(path, containing_block) ==
    [path |-> path, containing_block |-> containing_block, step |-> 0,
     child |-> 0]

Returning == Len(layout_block_steps) + 1

Top == stack[Len(stack)]

Self == BoxAt(layout_root, Top.path)

Statement ==
    IF Top.step \in 1..Len(layout_block_steps) THEN layout_block_steps[Top.step]
    ELSE ""

Event(path, step) == <<path, step>>

\* layout_tree: root_box.layout(containing_block), the height taken as 0
CallLayout ==
    /\ pc = "built"
    /\ pc' = "layout"
    /\ stack' = <<Frame(<<>>, [viewport EXCEPT !.content.height = 0])>>
    /\ trace' = <<>>
    /\ UNCHANGED <<root_node, stylesheet, style_root, viewport, layout_root,
                   display_list, canvas, item, panic>>

\* layout: match self.box_type; only a BlockNode goes on to layout_block
MatchBoxType ==
    /\ pc = "layout"
    /\ Top.step = 0
    /\ stack' = [stack EXCEPT ![Len(stack)].step =
                    IF Self.box_type = "BlockNode" THEN 1 ELSE Returning]
    /\ trace' = Append(trace, Event(Top.path, "layout"))
    /\ UNCHANGED <<pc, root_node, stylesheet, style_root, viewport, layout_root,
                   display_list, canvas, item, panic>>

\* layout_block: self.calculate_block_width(containing_block)
StepWidth ==
    /\ pc = "layout"
    /\ Statement = "width"
    /\ layout_root' = Replace(layout_root, Top.path,
                              calculate_block_width(Self, Top.containing_block))
    /\ stack' = [stack EXCEPT ![Len(stack)].step = @ + 1]
    /\ trace' = Append(trace, Event(Top.path, "width"))
    /\ UNCHANGED <<pc, root_node, stylesheet, style_root, viewport,
                   display_list, canvas, item, panic>>

\* layout_block: self.calculate_block_position(containing_block)
StepPosition ==
    /\ pc = "layout"
    /\ Statement = "position"
    /\ layout_root' = Replace(layout_root, Top.path,
                              calculate_block_position(Self, Top.containing_block))
    /\ stack' = [stack EXCEPT ![Len(stack)].step = @ + 1]
    /\ trace' = Append(trace, Event(Top.path, "position"))
    /\ UNCHANGED <<pc, root_node, stylesheet, style_root, viewport,
                   display_list, canvas, item, panic>>

\* layout_block_children: child.layout(*d) for the next child, or the end
\* of the loop
CallChild ==
    /\ pc = "layout"
    /\ Statement = "children"
    /\ stack' =
           IF Top.child < Len(Self.children)
           THEN Append(stack, Frame(Append(Top.path, Top.child + 1),
                                    Self.dimensions))
           ELSE [stack EXCEPT ![Len(stack)].step = @ + 1]
    /\ UNCHANGED <<pc, root_node, stylesheet, style_root, viewport, layout_root,
                   display_list, canvas, item, panic, trace>>

\* layout_block: self.calculate_block_height()
StepHeight ==
    /\ pc = "layout"
    /\ Statement = "height"
    /\ layout_root' = Replace(layout_root, Top.path, calculate_block_height(Self))
    /\ stack' = [stack EXCEPT ![Len(stack)].step = @ + 1]
    /\ trace' = Append(trace, Event(Top.path, "height"))
    /\ UNCHANGED <<pc, root_node, stylesheet, style_root, viewport,
                   display_list, canvas, item, panic>>

\* The return of layout: to layout_block_children, which adds the child's
\* margin-box height to d.content.height, or to layout_tree
Return ==
    /\ pc = "layout"
    /\ Top.step = Returning
    /\ trace' = Append(trace, Event(Top.path, "return"))
    /\ IF Len(stack) = 1
       THEN /\ pc' = "laid"
            /\ stack' = <<>>
            /\ layout_root' = layout_root
       ELSE LET caller == stack[Len(stack) - 1]
            IN  /\ pc' = pc
                /\ stack' = [SubSeq(stack, 1, Len(stack) - 1)
                                EXCEPT ![Len(stack) - 1].child = @ + 1]
                /\ layout_root' =
                       Replace(layout_root, caller.path,
                               add_child_height(BoxAt(layout_root, caller.path),
                                                caller.child + 1, Self))
    /\ UNCHANGED <<root_node, stylesheet, style_root, viewport, display_list,
                   canvas, item, panic>>

LayoutStep ==
    \/ CallLayout
    \/ MatchBoxType
    \/ StepWidth
    \/ StepPosition
    \/ CallChild
    \/ StepHeight
    \/ Return

\* The styled nodes the root's children are drawn from in the pass
PassKids ==
    {Leaf(v) : v \in {TallBlock, AutoBlock, TallInline, DisplayNone}}
    \cup {Node(TallBlock, <<Leaf(AutoBlock), Leaf(DisplayAbsent)>>),
          Node(TallInline, <<Leaf(TallBlock)>>),
          Node(DisplayBlock, <<Leaf(PaddedBlock), Leaf(TallBlock)>>)}

PassTrees ==
    {Node(v, kids) : v \in {DisplayBlock, TallBlock, TallInline},
                     kids \in SeqsUpTo(PassKids, MaxSiblings)}

InitPass ==
    /\ pc = "styled"
    /\ root_node = elem("div", EmptyMap, <<>>)
    /\ stylesheet = Nil
    /\ style_root \in PassTrees
    /\ viewport = Viewport(8, 6)
    /\ layout_root = Nil
    /\ display_list = Nil
    /\ canvas = Nil
    /\ item = 0
    /\ panic = ""
    /\ stack = <<>>
    /\ trace = <<>>

NextPass == BuildLayoutTree \/ LayoutStep

\* The pass is one sequential computation: a step that can be taken is taken
SpecPass == InitPass /\ [][NextPass]_vars /\ WF_vars(NextPass)

(***************************************************************************)
(* Claims about the layout pass                                            *)
(***************************************************************************)

\* The pass taken step by step ends with the tree that layout computes
PassAgrees ==
    pc = "laid" =>
        layout_root = layout(build_layout_tree(style_root),
                             [viewport EXCEPT !.content.height = 0])

\* The height of a box's margin box, from its dimensions
MarginBoxHeight(box) ==
    box.dimensions.content.height + box.dimensions.padding.top
    + box.dimensions.padding.bottom + box.dimensions.border.top
    + box.dimensions.border.bottom + box.dimensions.margin.top
    + box.dimensions.margin.bottom

RECURSIVE ChildrenHeight(_, _)
\* The margin-box heights of the first n children, added up in order
ChildrenHeight(children, n) ==
    IF n = 0 THEN 0
    ELSE ChildrenHeight(children, n - 1) + MarginBoxHeight(children[n])

ContentHeightAt(root, path) == BoxAt(root, path).dimensions.content.height

\* After the pass every Block box it reached has its explicit height, or
\* else the sum of its children's margin-box heights
HeightIsExplicitOrSum ==
    pc = "laid" =>
        \A box \in Reached(layout_root) :
            box.dimensions.content.height =
                IF HasHeight(box) THEN box.style.specified_values["height"].f
                ELSE ChildrenHeight(box.children, Len(box.children))

\* A step taken while a box is in its children pass leaves its content
\* height alone, unless the step is the return of one of its children: then
\* the height is what it was plus that child's margin-box height, and not less
HeightRunsUp ==
    \A k \in 1..Len(stack) :
        (stack[k].step \in 1..Len(layout_block_steps)
         /\ layout_block_steps[stack[k].step] = "children") =>
            LET before == ContentHeightAt(layout_root, stack[k].path)
                after == ContentHeightAt(layout_root', stack[k].path)
            IN  /\ after >= before
                /\ after =
                       IF k = Len(stack) - 1 /\ Top.step = Returning
                       THEN before + MarginBoxHeight(Self)
                       ELSE before

\* C11: after layout a Block box's content.height is the length of its
\* height property if it has one and otherwise the sum of its children's
\* margin-box heights as laid out, 0 without children; and during its
\* children pass the height only grows, by each child's margin-box height as
\* that child returns.
C11_HeightExplicitOrRunningSum ==
    []HeightIsExplicitOrSum /\ [][HeightRunsUp]_vars

\* A laid-out Block box without a height whose two Block children make up
\* its content height, and one with a height that its children do not make up
C11_Witness ==
    /\ pc = "laid"
    /\ \E box \in Reached(layout_root) :
           /\ ~HasHeight(box)
           /\ Len(box.children) = 2
           /\ MarginBoxHeight(box.children[1]) > 0
           /\ MarginBoxHeight(box.children[2]) > 0
           /\ box.dimensions.content.height
                  = MarginBoxHeight(box.children[1])
                        + MarginBoxHeight(box.children[2])
    /\ \E box \in Reached(layout_root) :
           /\ HasHeight(box)
           /\ ChildrenHeight(box.children, Len(box.children))
                  # box.dimensions.content.height

\* Where an event is in the trace, 0 when it is not
Index(e) ==
    IF \E i \in 1..Len(trace) : trace[i] = e
    THEN CHOOSE i \in 1..Len(trace) : trace[i] = e
    ELSE 0

Before(e, i) == 0 < Index(e) /\ Index(e) < i

Front(path) == SubSeq(path, 1, Len(path) - 1)

\* No step is taken twice: each box is visited at most once
VisitedOnce == \A i, j \in 1..Len(trace) : trace[i] = trace[j] => i = j

\* Every step taken so far came after the steps that go before it
InOrder ==
    \A i \in 1..Len(trace) :
        LET box == trace[i][1]
            step == trace[i][2]
        IN  /\ step = "layout" /\ box # <<>> =>
                   /\ Before(Event(Front(box), "position"), i)
                   /\ Index(Event(Front(box), "height")) = 0
                          \/ Index(Event(Front(box), "height")) > i
                   /\ box[Len(box)] > 1 =>
                          Before(Event(Append(Front(box), box[Len(box)] - 1),
                                       "return"), i)
            /\ step = "width" =>
                   /\ Before(Event(box, "layout"), i)
                   /\ BoxAt(layout_root, box).box_type = "BlockNode"
            /\ step = "position" => Before(Event(box, "width"), i)
            /\ step = "height" =>
                   /\ Before(Event(box, "position"), i)
                   /\ \A n \in 1..Len(BoxAt(layout_root, box).children) :
                          Before(Event(Append(box, n), "return"), i)
            /\ step = "return" =>
                   /\ Before(Event(box, "layout"), i)
                   /\ BoxAt(layout_root, box).box_type = "BlockNode" =>
                          Before(Event(box, "height"), i)

\* A box that has been positioned keeps its content width, x and y
PositionedStays ==
    \A i \in 1..Len(trace) :
        trace[i][2] = "position" =>
            LET before == BoxAt(layout_root, trace[i][1]).dimensions.content
                after == BoxAt(layout_root', trace[i][1]).dimensions.content
            IN  /\ after.width = before.width
                /\ after.x = before.x
                /\ after.y = before.y

\* C18: the layout pass ends, visits each box at most once, and takes the
\* steps of every Block box in the order width, position, each child in
\* child order, height; the content width, x and y of a box are final once
\* it is positioned, before any of its children is laid out, and its height
\* is finalized after its last child has returned.
C18_OnePassInOrder ==
    /\ [](VisitedOnce /\ InOrder)
    /\ [][PositionedStays]_vars
    /\ <>(pc = "laid")

\* The pass over a tree three Block boxes deep has ended, the innermost
\* box's height finalized before its parent's
C18_Witness ==
    /\ pc = "laid"
    /\ stack = <<>>
    /\ Before(Event(<<1, 1>>, "height"), Index(Event(<<1>>, "height")))
    /\ Before(Event(<<1>>, "height"), Index(Event(<<>>, "height")))
    /\ Before(Event(<<1>>, "return"), Index(Event(<<2>>, "layout")))

(***************************************************************************)
(* painting.rs                                                             *)
(***************************************************************************)

\* DisplayCommand::SolidColor(Color, Rect)
SolidColor(color, rect) == [color |-> color, rect |-> rect]

White == Color(255, 255, 255, 255)

\* Option<Color>: <<>> or <<color>>
get_color(layout_box, name) ==
    IF layout_box.box_type \in {"BlockNode", "InlineNode"}
    THEN (IF value(layout_box.style, name).kind = "ColorValue"
          THEN <<value(layout_box.style, name).color>> ELSE <<>>)
    ELSE <<>>

\* A background fill of the padding box
render_background_padding(list, layout_box) ==
    IF get_color(layout_box, "background") = <<>> THEN list
    ELSE Append(list, SolidColor(get_color(layout_box, "background")[1],
                                 padding_box(layout_box.dimensions)))

render_background(list, layout_box) ==
    IF get_color(layout_box, "background") = <<>> THEN list
    ELSE Append(list, SolidColor(get_color(layout_box, "background")[1],
                                 border_box(layout_box.dimensions)))

\* The four edges of a border of the given color
border_edges(color, d) ==
    <<SolidColor(color, Rect(border_box(d).x, border_box(d).y,
                             d.border.left, border_box(d).height)),
      SolidColor(color, Rect(border_box(d).x + border_box(d).width - d.border.right,
                             border_box(d).y, d.border.right,
                             border_box(d).height)),
      SolidColor(color, Rect(border_box(d).x, border_box(d).y,
                             border_box(d).width, d.border.top)),
      SolidColor(color, Rect(border_box(d).x,
                             border_box(d).y + border_box(d).height - d.border.bottom,
                             border_box(d).width, d.border.bottom))>>

\* Borders that are left out when no edge has a width
render_borders_if_wide(list, layout_box) ==
    IF get_color(layout_box, "border-color") = <<>> THEN list
    ELSE IF layout_box.dimensions.border = EdgeSizes(0, 0, 0, 0) THEN list
    ELSE list \o border_edges(get_color(layout_box, "border-color")[1],
                              layout_box.dimensions)

render_borders(list, layout_box) ==
    IF get_color(layout_box, "border-color") = <<>> THEN list
    ELSE list \o border_edges(get_color(layout_box, "border-color")[1],
                              layout_box.dimensions)

RECURSIVE render_layout_box(_, _)
RECURSIVE render_children(_, _, _)

\* The loop of render_layout_box over the first n children
render_children(list, layout_box, n) ==
    IF n = 0 THEN list
    ELSE render_layout_box(render_children(list, layout_box, n - 1),
                           layout_box.children[n])

render_layout_box(list, layout_box) ==
    render_children(render_borders(render_background(list, layout_box), layout_box),
                    layout_box, Len(layout_box.children))

build_display_list(root) == render_layout_box(<<>>, root)

\* Canvas::pixels, a Vec<Color>, is held as its runs of equal colors: a
\* sequence of <<length, color>> with every length positive and neighbouring
\* runs of different colors
Run(n, color) == <<n, color>>

\* vec![color; n]
vec(color, n) == IF n = 0 THEN <<>> ELSE <<Run(n, color)>>

\* The number of pixels in the first k runs
RECURSIVE count(_, _)
count(pixels, k) == IF k = 0 THEN 0 ELSE pixels[k][1] + count(pixels, k - 1)

\* pixels.len()
len(pixels) == count(pixels, Len(pixels))

\* The run holding the i-th pixel counted from run k, and i's offset in it
RECURSIVE locate(_, _, _)
locate(pixels, k, i) ==
    IF i < pixels[k][1] THEN <<k, i>>
    ELSE locate(pixels, k + 1, i - pixels[k][1])

\* pixels[i], for i < pixels.len()
index(pixels, i) == pixels[locate(pixels, 1, i)[1]][2]

\* Two vectors end to end
join(a, b) ==
    IF a = <<>> THEN b
    ELSE IF b = <<>> THEN a
    ELSE IF a[Len(a)][2] = b[1][2]
         THEN SubSeq(a, 1, Len(a) - 1)
                  \o <<Run(a[Len(a)][1] + b[1][1], b[1][2])>> \o Tail(b)
         ELSE a \o b

\* pixels with the pixel at offset o of run k set to color
set_at(pixels, k, o, color) ==
    join(join(join(SubSeq(pixels, 1, k - 1), vec(pixels[k][2], o)),
              vec(color, 1)),
         join(vec(pixels[k][2], pixels[k][1] - 1 - o),
              SubSeq(pixels, k + 1, Len(pixels))))

\* pixels[i] = color, for i < pixels.len()
index_mut(pixels, i, color) ==
    set_at(pixels, locate(pixels, 1, i)[1], locate(pixels, 1, i)[2], color)

\* Canvas::new: width * height white pixels
CanvasNew(width, height) ==
    [pixels |-> vec(White, width * height), width |-> width, height |-> height]

\* f32 as usize: truncates, saturating at 0
as_usize(f) == IF f <= 0 THEN 0 ELSE f \div Scale

\* usize as f32
as_f32(n) == n * Scale

\* A clamp without its upper bound
clamp_from_below(v, lower, upper) == IF v < lower THEN lower ELSE v

\* Clamp::clamp: self.max(lower).min(upper)
clamp(v, lower, upper) ==
    LET m == IF v < lower THEN lower ELSE v
    IN  IF m > upper THEN upper ELSE m

\* The bounds of the loops of paint_item
x0(cv, rect) == as_usize(clamp(rect.x, 0, as_f32(cv.width)))

y0(cv, rect) == as_usize(clamp(rect.y, 0, as_f32(cv.height)))

x1(cv, rect) == as_usize(clamp(rect.x + rect.width, 0, as_f32(cv.width)))

y1(cv, rect) == as_usize(clamp(rect.y + rect.height, 0, as_f32(cv.height)))

\* A store that leaves a pixel alone once it has been painted
store_if_white(old, color) == IF old = White THEN color ELSE old

\* self.pixels[y * self.width + x] = color
store(old, color) == color

PaintPanic == "index out of bounds"

\* What is left of the pixels when an index is past their end: the panic
OutOfBounds == <<Run(-1, NoColor)>>

\* for x in x0 .. x1 { self.pixels[y * self.width + x] = color }, from x up
\* to to, evaluated as its first half followed by its second half; row is
\* y * self.width
RECURSIVE paint_row(_, _, _, _, _)
paint_row(pixels, row, x, to, color) ==
    IF x >= to \/ pixels = OutOfBounds THEN pixels
    ELSE IF x + 1 = to
         THEN (IF row + x >= len(pixels) THEN OutOfBounds
               ELSE index_mut(pixels, row + x,
                              store(index(pixels, row + x), color)))
         ELSE paint_row(paint_row(pixels, row, x, (x + to) \div 2, color),
                        row, (x + to) \div 2, to, color)

\* for y in y0 .. y1 { ... }, from y up to bottom, evaluated as its first half
\* followed by its second half
RECURSIVE paint_rows(_, _, _, _, _, _, _)
paint_rows(pixels, width, y, bottom, left, right, color) ==
    IF y >= bottom \/ pixels = OutOfBounds THEN pixels
    ELSE IF y + 1 = bottom
         THEN paint_row(pixels, y * width, left, right, color)
         ELSE paint_rows(paint_rows(pixels, width, y, (y + bottom) \div 2,
                                    left, right, color),
                         width, (y + bottom) \div 2, bottom, left, right, color)

\* Canvas::paint_item; its pixels are OutOfBounds when a store panics
paint_item(cv, command) ==
    [cv EXCEPT !.pixels =
        paint_rows(@, cv.width, y0(cv, command.rect), y1(cv, command.rect),
                   x0(cv, command.rect), x1(cv, command.rect), command.color)]

\* paint: let display_list = build_display_list(layout_root)
BuildDisplayList ==
    /\ pc = "laid"
    /\ display_list' = build_display_list(layout_root)
    /\ pc' = "listed"
    /\ UNCHANGED pass
    /\ UNCHANGED <<root_node, stylesheet, style_root, viewport, layout_root,
                   canvas, item, panic>>

\* paint: let mut canvas = Canvas::new(bounds.width as usize, bounds.height
\* as usize), bounds the content rectangle of the viewport
NewCanvas ==
    /\ pc = "listed"
    /\ canvas' = CanvasNew(as_usize(viewport.content.width),
                           as_usize(viewport.content.height))
    /\ item' = 0
    /\ pc' = IF display_list = <<>> THEN "done" ELSE "painting"
    /\ UNCHANGED pass
    /\ UNCHANGED <<root_node, stylesheet, style_root, viewport, layout_root,
                   display_list, panic>>

\* paint: one turn of `for item in display_list { canvas.paint_item(&item) }`
PaintItem ==
    /\ pc = "painting"
    /\ item < Len(display_list)
    /\ LET painted == paint_item(canvas, display_list[item + 1])
       IN  IF painted.pixels = OutOfBounds
           THEN pc' = "panic" /\ panic' = PaintPanic /\ canvas' = canvas
           ELSE /\ canvas' = painted
                /\ panic' = panic
                /\ pc' = IF item + 1 = Len(display_list) THEN "done"
                         ELSE "painting"
    /\ item' = item + 1
    /\ UNCHANGED pass
    /\ UNCHANGED <<root_node, stylesheet, style_root, viewport, layout_root,
                   display_list>>

(***************************************************************************)
(* paint_item on its own: one display command, of any position and size,   *)
(* on a fresh canvas.                                                      *)
(***************************************************************************)

Red == Color(255, 0, 0, 255)

Blue == Color(0, 0, 255, 255)

\* Canvas sizes (width, height), in pixels
ItemCanvases == {<<0, 0>>, <<3, 2>>, <<20, 1>>, <<2, 3>>}

\* Rectangle origins and extents, in 1/Scale px: negative, fractional, on the
\* canvas and past it
ItemXs == {Px(-10), Px(-1), 0, 1, Px(1), Px(2) + 1, Px(25)}

ItemWidths == {0, 1, Px(1), Px(1) + 1, Px(3), Px(30)}

ItemYs == {Px(-1), 0, 1, Px(1), Px(4)}

ItemHeights == {0, Px(1), Px(1) + 1, Px(5)}

ItemCommands ==
    {SolidColor(Red, Rect(x, y, w, h)) :
        x \in ItemXs, y \in ItemYs, w \in ItemWidths, h \in ItemHeights}

InitPaintItem ==
    /\ pc = "painting"
    /\ root_node = Nil
    /\ stylesheet = Nil
    /\ style_root = Nil
    /\ viewport = Nil
    /\ layout_root = Nil
    /\ \E c \in ItemCommands : display_list = <<c>>
    /\ \E size \in ItemCanvases : canvas = CanvasNew(size[1], size[2])
    /\ item = 0
    /\ panic = ""
    /\ stack = <<>>
    /\ trace = <<>>

NextPaintItem == PaintItem

SpecPaintItem == InitPaintItem /\ [][NextPaintItem]_vars

(***************************************************************************)
(* Claims about paint_item                                                 *)
(***************************************************************************)

Clamped(v, upper) == Min({Max({v, 0}), upper})

\* The whole pixels below a length that is not negative
Floor(f) == CHOOSE n \in 0..f : Px(n) <= f /\ f < Px(n + 1)

PixelAt(x, y) == index(canvas.pixels, y * canvas.width + x)

KeepsItsPixels == len(canvas.pixels) = canvas.width * canvas.height

\* C7 as stated: a pixel is painted exactly when its coordinates lie between
\* the clamped edges of the rectangle, and no store leaves the pixels.
C7_ClampedEdges ==
    /\ pc # "panic"
    /\ pc = "done" =>
           LET r == display_list[1].rect
               w == as_f32(canvas.width)
               h == as_f32(canvas.height)
           IN  /\ KeepsItsPixels
               /\ \A x \in 0..(canvas.width - 1) : \A y \in 0..(canvas.height - 1) :
                      PixelAt(x, y) = display_list[1].color
                      <=> /\ Clamped(r.x, w) <= Px(x)
                          /\ Px(x) < Clamped(r.x + r.width, w)
                          /\ Clamped(r.y, h) <= Px(y)
                          /\ Px(y) < Clamped(r.y + r.height, h)

\* C7, amended: a pixel is painted exactly when its coordinates lie between
\* the clamped edges of the rectangle truncated to whole pixels, every other
\* pixel keeps its color, and no store leaves the pixels.
C7_TruncatedClampedEdges ==
    /\ pc # "panic"
    /\ pc = "done" =>
           LET r == display_list[1].rect
               w == as_f32(canvas.width)
               h == as_f32(canvas.height)
           IN  /\ KeepsItsPixels
               /\ \A x \in 0..(canvas.width - 1) : \A y \in 0..(canvas.height - 1) :
                      /\ PixelAt(x, y) \in {display_list[1].color, White}
                      /\ PixelAt(x, y) = display_list[1].color
                         <=> /\ Floor(Clamped(r.x, w)) <= x
                             /\ x < Floor(Clamped(r.x + r.width, w))
                             /\ Floor(Clamped(r.y, h)) <= y
                             /\ y < Floor(Clamped(r.y + r.height, h))

\* x = -10, width 30 on a canvas 20 pixels wide: columns 0..19 are painted
C7_Witness ==
    /\ pc = "done"
    /\ canvas.width = 20
    /\ display_list[1].rect.x = Px(-10)
    /\ display_list[1].rect.width = Px(30)
    /\ \A x \in 0..19 : PixelAt(x, 0) = Red

\* A rectangle right of the canvas paints nothing
C7_WitnessOutside ==
    /\ pc = "done"
    /\ canvas.width = 20
    /\ display_list[1].rect.x = Px(25)
    /\ display_list[1].rect.width = Px(3)
    /\ display_list[1].rect.height = Px(5)
    /\ display_list[1].rect.y = 0
    /\ \A x \in 0..19 : PixelAt(x, 0) = White

(***************************************************************************)
(* The rasterizer on its own: a display list painted on a fresh canvas.    *)
(***************************************************************************)

\* Commands per display list
MaxCommands == 3

PaintRects ==
    {Rect(0, 0, Px(2), Px(1)), Rect(Px(1), 0, Px(2), Px(2)),
     Rect(Px(-1), Px(-1), Px(2), Px(2)), Rect(1, 1, Px(1) + 1, Px(1)),
     Rect(Px(5), 0, Px(1), Px(1)), Rect(0, 0, Px(3), Px(2))}

PaintCommands == {SolidColor(c, r) : c \in {Red, Blue}, r \in PaintRects}

PaintViewports == {Viewport(3, 2), Viewport(2, 2)}

InitPaint ==
    /\ pc = "listed"
    /\ root_node = Nil
    /\ stylesheet = Nil
    /\ style_root = Nil
    /\ viewport \in PaintViewports
    /\ layout_root = Nil
    /\ display_list \in SeqsUpTo(PaintCommands, MaxCommands)
    /\ canvas = Nil
    /\ item = 0
    /\ panic = ""
    /\ stack = <<>>
    /\ trace = <<>>

NextPaint == NewCanvas \/ PaintItem

SpecPaint == InitPaint /\ [][NextPaint]_vars

(***************************************************************************)
(* Claims about paint                                                      *)
(***************************************************************************)

\* Whether the rectangle of a command, clipped to the canvas, covers a pixel
Covers(command, x, y) ==
    LET r == command.rect
        w == as_f32(canvas.width)
        h == as_f32(canvas.height)
    IN  /\ Floor(Clamped(r.x, w)) <= x
        /\ x < Floor(Clamped(r.x + r.width, w))
        /\ Floor(Clamped(r.y, h)) <= y
        /\ y < Floor(Clamped(r.y + r.height, h))

\* The color the first n commands leave at a pixel: that of the last of them
\* that covers it, white if none does
LastCovering(n, x, y) ==
    LET covering == {k \in 1..n : Covers(display_list[k], x, y)}
    IN  IF covering = {} THEN White ELSE display_list[Max(covering)].color

\* C8: the canvas keeps its width * height pixels, and after each command of
\* the list every pixel has the color of the last command so far whose clipped
\* rectangle covers it, or opaque white if none does.
C8_LaterCommandsWin ==
    pc \in {"painting", "done"} =>
        /\ KeepsItsPixels
        /\ canvas.width = as_usize(viewport.content.width)
        /\ canvas.height = as_usize(viewport.content.height)
        /\ pc = "done" => item = Len(display_list)
        /\ \A x \in 0..(canvas.width - 1) : \A y \in 0..(canvas.height - 1) :
               PixelAt(x, y) = LastCovering(item, x, y)

\* A finished paint in which a later command has overwritten an earlier one
\* of another color
C8_Witness ==
    /\ pc = "done"
    /\ Len(display_list) >= 2
    /\ \E x \in 0..(canvas.width - 1) : \E y \in 0..(canvas.height - 1) :
           \E j, k \in 1..Len(display_list) :
               /\ j < k
               /\ Covers(display_list[j], x, y)
               /\ Covers(display_list[k], x, y)
               /\ display_list[j].color # display_list[k].color
               /\ PixelAt(x, y) = display_list[k].color
               /\ \A m \in (k + 1)..Len(display_list) : ~Covers(display_list[m], x, y)

(***************************************************************************)
(* The display-list builder on laid-out trees whose boxes differ in        *)
(* background, border color and border width.                              *)
(***************************************************************************)

\* Children of the root styled node
MaxBoxes == 2

PlainBlock == DisplayBlock

FilledBlock ==
    DisplayBlock @@ ("background" :> ColorValue(Red))
    @@ ("border-width" :> Length(Px(1)))

HairlineBlock == DisplayBlock @@ ("border-color" :> ColorValue(Blue))

FramedBlock ==
    DisplayBlock @@ ("background" :> ColorValue(Red))
    @@ ("border-color" :> ColorValue(Blue)) @@ ("border-width" :> Length(Px(1)))
    @@ ("width" :> Length(Px(4))) @@ ("height" :> Length(Px(2)))

FilledInline == "background" :> ColorValue(Blue)

\* background: red is a keyword, not a color value
NamedInline ==
    ("background" :> Keyword("red")) @@ ("border-color" :> ColorValue(Blue))

DisplayStyles ==
    {PlainBlock, FilledBlock, HairlineBlock, FramedBlock, FilledInline, NamedInline}

DisplayKids ==
    {Leaf(v) : v \in DisplayStyles}
    \cup {Node(FramedBlock, <<Leaf(FilledInline), Leaf(FilledBlock)>>),
          Node(FilledInline, <<Leaf(HairlineBlock)>>)}

DisplayTrees ==
    {Node(v, kids) : v \in {PlainBlock, FramedBlock, FilledInline},
                     kids \in SeqsUpTo(DisplayKids, MaxBoxes)}

InitDisplay ==
    /\ pc = "styled"
    /\ root_node = elem("div", EmptyMap, <<>>)
    /\ stylesheet = Nil
    /\ style_root \in DisplayTrees
    /\ viewport = Viewport(8, 6)
    /\ layout_root = Nil
    /\ display_list = Nil
    /\ canvas = Nil
    /\ item = 0
    /\ panic = ""
    /\ stack = <<>>
    /\ trace = <<>>

NextDisplay == BuildLayoutTree \/ Layout \/ BuildDisplayList

SpecDisplay == InitDisplay /\ [][NextDisplay]_vars

(***************************************************************************)
(* Claims about the display list                                           *)
(***************************************************************************)

\* The boxes of a tree in pre-order
RECURSIVE PreOrder(_)
PreOrder(box) ==
    <<box>> \o Concat([i \in 1..Len(box.children) |-> PreOrder(box.children[i])])

HasColor(box, name) ==
    /\ box.box_type \in {"BlockNode", "InlineNode"}
    /\ name \in DOMAIN box.style.specified_values
    /\ box.style.specified_values[name].kind = "ColorValue"

ColorOf(box, name) == box.style.specified_values[name].color

\* The border box of a box: its content grown by padding and border
BorderBoxOf(box) ==
    LET d == box.dimensions
    IN  Rect(d.content.x - d.padding.left - d.border.left,
             d.content.y - d.padding.top - d.border.top,
             d.content.width + d.padding.left + d.padding.right
                 + d.border.left + d.border.right,
             d.content.height + d.padding.top + d.padding.bottom
                 + d.border.top + d.border.bottom)

Fill(color, rect) == [color |-> color, rect |-> rect]

\* The commands a box emits for itself: its background, then its left,
\* right, top and bottom border edges
OwnCommands(box) ==
    LET bb == BorderBoxOf(box)
        b == box.dimensions.border
        bc == ColorOf(box, "border-color")
    IN  (IF HasColor(box, "background")
         THEN <<Fill(ColorOf(box, "background"), bb)>> ELSE <<>>)
        \o (IF HasColor(box, "border-color")
            THEN <<Fill(bc, Rect(bb.x, bb.y, b.left, bb.height)),
                   Fill(bc, Rect(bb.x + bb.width - b.right, bb.y, b.right,
                                 bb.height)),
                   Fill(bc, Rect(bb.x, bb.y, bb.width, b.top)),
                   Fill(bc, Rect(bb.x, bb.y + bb.height - b.bottom, bb.width,
                                 b.bottom))>>
            ELSE <<>>)

\* C9: the display list is, for the boxes of the layout tree in pre-order,
\* each box's own commands: a fill of its border box iff its style has a
\* background color, then the four border edges left, right, top, bottom iff
\* its style has a border-color (whatever the border widths); an Anonymous box
\* has none of its own, and its children's commands are still emitted.
C9_PreOrderCommands ==
    pc = "listed" =>
        LET boxes == PreOrder(layout_root)
        IN  display_list = Concat([i \in 1..Len(boxes) |-> OwnCommands(boxes[i])])

\* A list with the commands of a box inside an Anonymous box and with the
\* four edges of a border that has a color and no width
C9_Witness ==
    /\ pc = "listed"
    /\ Len(display_list) >= 6
    /\ \E box \in BoxesOf(layout_root) :
           /\ box.box_type = "AnonymousBlock"
           /\ \E c \in Range(box.children) : HasColor(c, "background")
    /\ \E box \in BoxesOf(layout_root) :
           /\ HasColor(box, "border-color")
           /\ box.dimensions.border = EdgeSizes(0, 0, 0, 0)
    /\ \E box \in BoxesOf(layout_root) :
           /\ HasColor(box, "border-color")
           /\ box.dimensions.border.left > 0

(***************************************************************************)
(* main.rs: the whole pipeline, from the parsed document and stylesheet to *)
(* the painted canvas.                                                     *)
(***************************************************************************)

\* viewport.content.width = 800.0
ViewportWidth == 800

\* viewport.content.height = 600.0
ViewportHeight == 600

SelClassA == SimpleSelector(<<>>, <<"a">>, <<>>)

SelSpan == SimpleSelector(<<>>, <<>>, <<"span">>)

\* <div class="a"><span>x</span></div>
DivA ==
    elem("div", [x \in {"class"} |-> <<"a">>],
         <<elem("span", EmptyMap, <<text("x")>>)>>)

\* <div><span class="a">x</span></div>
SpanA ==
    elem("div", EmptyMap,
         <<elem("span", [x \in {"class"} |-> <<"a">>], <<text("x")>>)>>)

\* .a { background: #ff0000; width: 100px; height: 50px; }
RuleA ==
    Rule(parse_selectors(<<SelClassA>>),
         <<Declaration("background", ColorValue(Red)),
           Declaration("width", Length(Px(100))),
           Declaration("height", Length(Px(50)))>>)

\* .a { display: block; background: #ff0000; width: 100px; height: 50px; }
RuleBlockA ==
    Rule(parse_selectors(<<SelClassA>>),
         <<Declaration("display", Keyword("block"))>> \o RuleA.declarations)

\* Rules of the stylesheets painted on the small viewport
SheetRules ==
    {RuleA,
     Rule(parse_selectors(<<SelClassA>>),
          <<Declaration("display", Keyword("block")),
            Declaration("background", ColorValue(Red)),
            Declaration("width", Length(Px(4))),
            Declaration("height", Length(Px(2)))>>),
     Rule(parse_selectors(<<SelSpan>>),
          <<Declaration("display", Keyword("block")),
            Declaration("background", ColorValue(Blue)),
            Declaration("height", Length(Px(1)))>>),
     Rule(parse_selectors(<<SelTag>>),
          <<Declaration("display", Keyword("none"))>>),
     Rule(parse_selectors(<<SelTag, SelClassA>>),
          <<Declaration("border-color", ColorValue(Blue)),
            Declaration("border-width", Length(Px(1)))>>)}

Scenario(document, rules, bounds) ==
    [root_node |-> document, stylesheet |-> [rules |-> rules],
     viewport |-> bounds]

Scenarios ==
    {Scenario(DivA, <<r>>, Viewport(ViewportWidth, ViewportHeight)) :
         r \in {RuleA, RuleBlockA}}
    \cup {Scenario(d, rules, Viewport(8, 6)) :
              d \in {DivA, SpanA}, rules \in SeqsUpTo(SheetRules, MaxRules)}

Init ==
    /\ pc = "parsed"
    /\ \E sc \in Scenarios :
           /\ root_node = sc.root_node
           /\ stylesheet = sc.stylesheet
           /\ viewport = sc.viewport
    /\ style_root = Nil
    /\ layout_root = Nil
    /\ display_list = Nil
    /\ canvas = Nil
    /\ item = 0
    /\ panic = ""
    /\ stack = <<>>
    /\ trace = <<>>

Next ==
    \/ StyleTree
    \/ BuildLayoutTree
    \/ Layout
    \/ BuildDisplayList
    \/ NewCanvas
    \/ PaintItem

Spec == Init /\ [][Next]_vars

(***************************************************************************)
(* Claims about the pipeline                                               *)
(***************************************************************************)

\* The document, the rule and the viewport of the scenario
DeclaredInline ==
    /\ root_node = DivA
    /\ stylesheet = [rules |-> <<RuleA>>]
    /\ viewport = Viewport(ViewportWidth, ViewportHeight)

\* The same with display: block declared in the rule
DeclaredBlock ==
    /\ root_node = DivA
    /\ stylesheet = [rules |-> <<RuleBlockA>>]
    /\ viewport = Viewport(ViewportWidth, ViewportHeight)

\* Pixel i lies in the 100x50 rectangle with top-left corner (0,0)
InRectangle(i) == i % ViewportWidth < 100 /\ i \div ViewportWidth < 50

RedInRectangle(i) == IF InRectangle(i) THEN Red ELSE White

WhiteAt(i) == White

\* The canvas has the viewport's size and each of its pixels, taken run by
\* run, the color Expected gives its index
Shows(Expected(_)) ==
    /\ canvas.width = ViewportWidth
    /\ canvas.height = ViewportHeight
    /\ len(canvas.pixels) = ViewportWidth * ViewportHeight
    /\ \A k \in 1..Len(canvas.pixels) :
           \A i \in count(canvas.pixels, k - 1)..(count(canvas.pixels, k) - 1) :
               canvas.pixels[k][2] = Expected(i)

RedRectangle == Shows(RedInRectangle)

AllWhite == Shows(WhiteAt)

\* C1 as stated: for the document <div class="a"><span>x</span></div>, the
\* rule .a { background: #ff0000; width: 100px; height: 50px; } and the
\* 800x600 viewport, the painted canvas has exactly the pixels of the 100x50
\* rectangle at (0,0) red and every other pixel white.
C1_RedRectangle == (pc = "done" /\ DeclaredInline) => RedRectangle

\* C1, amended: for that document, rule and viewport the painted canvas is
\* white in every pixel, the div's box being inline; once the rule also
\* declares display: block, exactly the pixels of the 100x50 rectangle at
\* (0,0) are red and every other pixel is white.
C1_RedRectangleWhenBlock ==
    /\ (pc = "done" /\ DeclaredInline) => AllWhite
    /\ (pc = "done" /\ DeclaredBlock) => RedRectangle

\* The scenario painted to its end: its one command has been rasterized
C1_Witness ==
    /\ pc = "done"
    /\ DeclaredInline
    /\ Len(display_list) = 1
    /\ display_list[1].color = Red
    /\ item = 1

\* The scenario with display: block painted to its end
C1_WitnessBlock ==
    /\ pc = "done"
    /\ DeclaredBlock
    /\ item = Len(display_list)
    /\ index(canvas.pixels, 0) = Red

====
